---- MODULE Spec2Model ----
(***************************************************************************)
(* Task lifecycle and persistence of the gravity video downloader:         *)
(*   - the download history, a Redis sorted set capped at 20 ids           *)
(*     (backend/app/services/task_storage.py),                             *)
(*   - the task store, Redis hashes task:{id} with a 7 day TTL             *)
(*     (backend/app/services/task_storage.py),                             *)
(*   - the runner download_video_task and its retries                      *)
(*     (backend/app/tasks/download_tasks.py),                              *)
(*   - the history listings and the first status read of a submission      *)
(*     (backend/app/services/task_storage.py, backend/app/api/endpoints.py)*)
(*   - the submission of a download and the validation of its URL          *)
(*     (backend/app/api/endpoints.py, backend/app/models/schemas.py),      *)
(*   - execute_with_retry, the retry loop around every Redis command       *)
(*     (backend/app/services/redis_client.py),                             *)
(*   - two executions of one delivered message                             *)
(*     (backend/app/tasks/download_tasks.py, backend/app/celery_app.py).   *)
(***************************************************************************)
EXTENDS Integers, Sequences, FiniteSets, TLC

(***************************************************************************)
(* Program constants.                                                      *)
(***************************************************************************)
MAX_HISTORY_SIZE == 20

\* TASK_TTL_SECONDS = 7 * 24 * 60 * 60
TASK_TTL_SECONDS == 604800

(***************************************************************************)
(* Bounds of the history model.  Members of the sorted set are task ids;   *)
(* Redis orders members of equal score by their bytes, which the model     *)
(* renders as the order of the naturals that stand for the ids.            *)
(***************************************************************************)
MaxCalls == 3

HistRunners == {1, 2}

\* ids present before the first modelled call: 2 .. k+1
PrefillIds(k) == 2 .. (k + 1)

\* ids a modelled call may insert: an id that sorts below every prefilled
\* id, the oldest prefilled id (a re-insertion), an id that sorts above
CallIds == {1, 2, MAX_HISTORY_SIZE + 2}

VARIABLES
    history,    \* the sorted set history:downloads, a function member -> score
    hclock,     \* the last value datetime.now().timestamp() returned
    hpc,        \* per runner: position inside add_task_to_history
    hid,        \* per runner: the task_id argument of its call
    hts,        \* per runner: current_timestamp of its call
    hcnt,       \* per runner: total_count read by zcard
    hcalls,     \* number of add_task_to_history calls started
    hAll,       \* every id inserted so far with its latest score
    hord,       \* every id inserted so far with the rank in time of its last zadd
    store,      \* the hashes task:{id}: task id -> (field -> value)
    expires,    \* task id -> the time at which its key expires
    now,        \* the time, in seconds
    nticks,     \* number of clock steps taken
    spc,        \* per caller: position inside store_task / update_task_status
    sarg,       \* per caller: the arguments and locals of its call
    sres,       \* per caller: what its last call returned
    scalls,     \* number of store calls started
    lastTouch,  \* task id -> time of the last command a store call ran on it
    rq,         \* per task: where its Celery message is
    rretries,   \* per task: self.request.retries of its message
    rpc,        \* per task: position inside download_video_task
    rexc,       \* per task: str(e) of the exception being handled
    rtitle,     \* per task: result['title'] of the download
    rdelay,     \* per task: countdown of the retry last scheduled
    rwrote,     \* per task: a store write of the running invocation took effect
    rfault,     \* per task: Redis refused the last store write of the runner
    rexecs,     \* per task: number of executions of download_video_task started
    gres,       \* per task: status found by the first get_task after submit
    rreq,       \* per task: request.url of the last POST /downloads for it
    rresp,      \* per task: how that request was answered
    lres,       \* what the last history listing returned
    lcalls,     \* number of history listings made
    epc,        \* position inside execute_with_retry
    attempt,    \* execute_with_retry: the loop variable attempt
    retry_delay,    \* execute_with_retry: the local retry_delay
    is_connected,   \* RedisClient._is_connected
    slept,      \* execute_with_retry: the delays it has slept, in order
    tried,      \* execute_with_retry: how each pass of the loop of this call ended
    eres,       \* execute_with_retry: what the last call returned or raised
    ecalls,     \* number of execute_with_retry calls started
    uargs,      \* the arguments update_task_status is applied with, twice
    uapplied,   \* how many times it has been applied with them
    uonce,      \* the store as the first application left it
    dpc,        \* per delivery of one message: position inside download_video_task
    dtitle      \* per delivery: result['title'] of its download

histVars == <<history, hclock, hpc, hid, hts, hcnt, hcalls, hAll, hord>>

storeVars == <<store, expires, now, nticks, spc, sarg, sres, scalls, lastTouch>>

runVars == <<rq, rretries, rpc, rexc, rtitle, rdelay, rwrote, rfault, rexecs, gres,
            rreq, rresp>>

listVars == <<lres, lcalls>>

retryVars == <<epc, attempt, retry_delay, is_connected, slept, tried, eres, ecalls>>

twiceVars == <<uargs, uapplied, uonce>>

dupVars == <<dpc, dtitle>>

vars == <<history, hclock, hpc, hid, hts, hcnt, hcalls, hAll, hord,
          store, expires, now, nticks, spc, sarg, sres, scalls, lastTouch,
          rq, rretries, rpc, rexc, rtitle, rdelay, rwrote, rfault, rexecs, gres,
          rreq, rresp, lres, lcalls,
          epc, attempt, retry_delay, is_connected, slept, tried, eres, ecalls,
          uargs, uapplied, uonce, dpc, dtitle>>

\* what the history's actions leave alone, what the store's do, and what
\* the runner's do
notHistVars == <<storeVars, runVars, listVars, retryVars, twiceVars, dupVars>>

notStoreVars == <<histVars, runVars, listVars, retryVars, twiceVars, dupVars>>

notRetryVars == <<histVars, storeVars, runVars, listVars, twiceVars, dupVars>>

submitFrame == <<hclock, hpc, hid, hts, hcnt, hcalls, hAll, hord,
                 now, nticks, spc, sarg, sres, scalls, lastTouch, lres, lcalls,
                 retryVars, twiceVars, dupVars>>

runFrame == <<submitFrame, rreq, rresp>>

listFrame == <<hclock, hpc, hid, hts, hcnt, hcalls, hAll, hord,
               now, nticks, spc, sarg, sres, scalls, lastTouch, runVars,
               retryVars, twiceVars, dupVars>>

dupFrame == <<hclock, hpc, hid, hts, hcnt, hcalls, hAll, hord,
              now, nticks, spc, sarg, sres, scalls, lastTouch,
              runVars, listVars, retryVars, twiceVars>>

(***************************************************************************)
(* Each specification below drives one part of the program and leaves the  *)
(* state of the other parts as it is at start-up: an empty Redis, no call  *)
(* in progress.                                                            *)
(***************************************************************************)
None == "None"

StoreCallers == {1, 2}

HistAtRest ==
    /\ history = << >>
    /\ hAll = << >>
    /\ hord = << >>
    /\ hclock = 0
    /\ hpc = [r \in HistRunners |-> "idle"]
    /\ hid = [r \in HistRunners |-> 0]
    /\ hts = [r \in HistRunners |-> 0]
    /\ hcnt = [r \in HistRunners |-> 0]
    /\ hcalls = 0

StoreAtRest ==
    /\ store = << >>
    /\ expires = << >>
    /\ now = 0
    /\ nticks = 0
    /\ spc = [c \in StoreCallers |-> "idle"]
    /\ sarg = [c \in StoreCallers |-> None]
    /\ sres = [c \in StoreCallers |-> None]
    /\ scalls = 0
    /\ lastTouch = << >>

RunIds == {"t1"}

RunAtRest ==
    /\ rq = [t \in RunIds |-> "none"]
    /\ rretries = [t \in RunIds |-> 0]
    /\ rpc = [t \in RunIds |-> "none"]
    /\ rexc = [t \in RunIds |-> None]
    /\ rtitle = [t \in RunIds |-> None]
    /\ rdelay = [t \in RunIds |-> 0]
    /\ rwrote = [t \in RunIds |-> FALSE]
    /\ rfault = [t \in RunIds |-> FALSE]
    /\ rexecs = [t \in RunIds |-> 0]
    /\ gres = [t \in RunIds |-> "unread"]
    /\ rreq = [t \in RunIds |-> None]
    /\ rresp = [t \in RunIds |-> None]

ListAtRest ==
    /\ lres = [op |-> "none", limit |-> 0, range |-> << >>, tasks |-> << >>,
               faults |-> {}, raised |-> FALSE]
    /\ lcalls = 0

Deliveries == {1, 2}

DupAtRest ==
    /\ dpc = [e \in Deliveries |-> "none"]
    /\ dtitle = [e \in Deliveries |-> None]

TwiceAtRest ==
    /\ uargs = None
    /\ uapplied = 0
    /\ uonce = << >>

RetryAtRest ==
    /\ epc = "idle"
    /\ attempt = 0
    /\ retry_delay = 0
    /\ is_connected = TRUE
    /\ slept = << >>
    /\ tried = << >>
    /\ eres = None
    /\ ecalls = 0

(***************************************************************************)
(* The Redis sorted-set commands the history uses.                         *)
(***************************************************************************)
Min(a, b) == IF a < b THEN a ELSE b

\* ZADD key {member: score}: inserts the member or replaces its score
ZAdd(h, member, score) ==
    [x \in (DOMAIN h) \cup {member} |-> IF x = member THEN score ELSE h[x]]

\* ZCARD key
ZCard(h) == Cardinality(DOMAIN h)

\* a sorts before b: by score, members of equal score by member bytes
ZLess(h, a, b) == h[a] < h[b] \/ (h[a] = h[b] /\ a < b)

\* 0-based rank of a member, lowest score first
ZRank(h, a) == Cardinality({b \in DOMAIN h : ZLess(h, b, a)})

\* a rank argument: negative ranks count from the end
ZIndex(h, i) == IF i < 0 THEN ZCard(h) + i ELSE i

\* the mutation: trims from the high end of the set
ZRemRangeByRankHigh(h, start, stop) ==
    [x \in {a \in DOMAIN h : ZRank(h, a) < ZCard(h) - (stop - start + 1)} |-> h[x]]

\* ZREMRANGEBYRANK key start stop
ZRemRangeByRank(h, start, stop) ==
    [x \in {a \in DOMAIN h :
              ~(ZIndex(h, start) <= ZRank(h, a) /\ ZRank(h, a) <= ZIndex(h, stop))}
        |-> h[x]]

\* the mutation: lets one entry too many stay
NeedsTrimLate(total_count) == total_count > MAX_HISTORY_SIZE + 1

\* if total_count > MAX_HISTORY_SIZE
NeedsTrim(total_count) == total_count > MAX_HISTORY_SIZE

\* remove_count = total_count - MAX_HISTORY_SIZE
RemoveCount(total_count) == total_count - MAX_HISTORY_SIZE

(***************************************************************************)
(* Initial states of the history: k ids were inserted one after another,   *)
(* each with the clock's value at its call, and nothing was evicted yet.   *)
(***************************************************************************)
PrefillScore(tied, i) == IF tied THEN i \div 2 ELSE i

\* the rank in time of the zadd that ran last
LastRank(o) ==
    IF DOMAIN o = {} THEN 0
    ELSE CHOOSE m \in {o[y] : y \in DOMAIN o} : \A y \in DOMAIN o : o[y] <= m

\* the ranks once one more zadd, of member, has run
Inserted(o, member) ==
    [x \in (DOMAIN o) \cup {member} |-> IF x = member THEN LastRank(o) + 1 ELSE o[x]]

InitHist ==
    \E k \in {MAX_HISTORY_SIZE - 1, MAX_HISTORY_SIZE}, tied \in BOOLEAN :
        /\ history = [i \in PrefillIds(k) |-> PrefillScore(tied, i)]
        /\ hAll = [i \in PrefillIds(k) |-> PrefillScore(tied, i)]
        /\ hord = [i \in PrefillIds(k) |-> i]
        /\ hclock = PrefillScore(tied, k + 1)
        /\ hpc = [r \in HistRunners |-> "idle"]
        /\ hid = [r \in HistRunners |-> 0]
        /\ hts = [r \in HistRunners |-> 0]
        /\ hcnt = [r \in HistRunners |-> 0]
        /\ hcalls = 0

(***************************************************************************)
(* add_task_to_history, one action per Redis command it awaits.            *)
(***************************************************************************)
\* the pool hands a call to its first free runner
FreeRunner(r) ==
    /\ hpc[r] = "idle"
    /\ \A q \in HistRunners : hpc[q] = "idle" => ~(q < r)

\* the call: current_timestamp = datetime.now().timestamp()
HistCall(r, id) ==
    /\ FreeRunner(r)
    /\ hcalls < MaxCalls
    /\ \E t \in {hclock, hclock + 1} :
        /\ hclock' = t
        /\ hts' = [hts EXCEPT ![r] = t]
    /\ hid' = [hid EXCEPT ![r] = id]
    /\ hpc' = [hpc EXCEPT ![r] = "zadd"]
    /\ hcalls' = hcalls + 1
    /\ UNCHANGED <<history, hcnt, hAll, hord>>
    /\ UNCHANGED notHistVars

\* await client.zadd(history_key, {task_id: timestamp})
HistZAdd(r) ==
    /\ hpc[r] = "zadd"
    /\ history' = ZAdd(history, hid[r], hts[r])
    /\ hAll' = ZAdd(hAll, hid[r], hts[r])
    /\ hord' = Inserted(hord, hid[r])
    /\ hpc' = [hpc EXCEPT ![r] = "zcard"]
    /\ UNCHANGED <<hclock, hid, hts, hcnt, hcalls>>
    /\ UNCHANGED notHistVars

\* total_count = await client.zcard(history_key); the test on it
HistZCard(r) ==
    /\ hpc[r] = "zcard"
    /\ IF NeedsTrim(ZCard(history))
         THEN /\ hcnt' = [hcnt EXCEPT ![r] = ZCard(history)]
              /\ hpc' = [hpc EXCEPT ![r] = "zrem"]
         ELSE /\ hcnt' = hcnt
              /\ hpc' = [hpc EXCEPT ![r] = "idle"]
    /\ hid' = [hid EXCEPT ![r] = 0]
    /\ hts' = [hts EXCEPT ![r] = 0]
    /\ UNCHANGED <<history, hclock, hcalls, hAll, hord>>
    /\ UNCHANGED notHistVars

\* await client.zremrangebyrank(history_key, 0, remove_count - 1)
HistZRem(r) ==
    /\ hpc[r] = "zrem"
    /\ history' = ZRemRangeByRank(history, 0, RemoveCount(hcnt[r]) - 1)
    /\ hpc' = [hpc EXCEPT ![r] = "idle"]
    /\ hcnt' = [hcnt EXCEPT ![r] = 0]
    /\ UNCHANGED <<hclock, hid, hts, hcalls, hAll, hord>>
    /\ UNCHANGED notHistVars

\* no call is past its zadd and before the end of its trim
HistQuiet == \A r \in HistRunners : hpc[r] \in {"idle", "zadd"}

\* no call at all is in progress
HistIdle == \A r \in HistRunners : hpc[r] = "idle"

\* a call issued when the previous one has returned
HistCallSeq(r, id) == HistIdle /\ HistCall(r, id)

\* runners calling add_task_to_history concurrently
NextHist ==
    \/ \E r \in HistRunners, id \in CallIds : HistCall(r, id)
    \/ \E r \in HistRunners : HistZAdd(r)
    \/ \E r \in HistRunners : HistZCard(r)
    \/ \E r \in HistRunners : HistZRem(r)

InitHistAll == InitHist /\ StoreAtRest /\ RunAtRest /\ ListAtRest /\ RetryAtRest /\ TwiceAtRest /\ DupAtRest

SpecHist == InitHistAll /\ [][NextHist]_vars

\* the calls executed one after another
NextHistSeq ==
    \/ \E r \in HistRunners, id \in CallIds : HistCallSeq(r, id)
    \/ \E r \in HistRunners : HistZAdd(r)
    \/ \E r \in HistRunners : HistZCard(r)
    \/ \E r \in HistRunners : HistZRem(r)

SpecHistSeq == InitHistAll /\ [][NextHistSeq]_vars

(***************************************************************************)
(* C1: whenever no add_task_to_history call is between its own zadd and    *)
(* its own trim, the history holds at most MAX_HISTORY_SIZE ids, whatever  *)
(* the interleaving of the runners' calls.                                 *)
(***************************************************************************)
HistoryBound == HistQuiet => ZCard(history) <= MAX_HISTORY_SIZE

\* two interleaved calls have trimmed a full history below the cap
HistoryBoundWitness ==
    /\ HistQuiet
    /\ hcalls >= 2
    /\ Cardinality(DOMAIN hAll) > MAX_HISTORY_SIZE
    /\ ZCard(history) < MAX_HISTORY_SIZE

(***************************************************************************)
(* C2: after calls executed one after another the history holds exactly    *)
(* the ids with the MAX_HISTORY_SIZE highest scores among the ids          *)
(* inserted (all of them when there are at most MAX_HISTORY_SIZE): every   *)
(* id kept has its latest score, none kept scores below one evicted, and   *)
(* no more is evicted than the cap requires.                               *)
(***************************************************************************)
HistoryKeepsTopScores ==
    HistIdle =>
        /\ DOMAIN history \subseteq DOMAIN hAll
        /\ \A a \in DOMAIN history : history[a] = hAll[a]
        /\ ZCard(history) = Min(MAX_HISTORY_SIZE, Cardinality(DOMAIN hAll))
        /\ \A a \in DOMAIN history : \A b \in (DOMAIN hAll) \ (DOMAIN history) :
              hAll[b] <= history[a]

\* an insertion into a full history has evicted an entry
HistoryKeepsTopScoresWitness ==
    /\ HistIdle
    /\ Cardinality(DOMAIN hAll) > MAX_HISTORY_SIZE
    /\ ZCard(history) = MAX_HISTORY_SIZE
    /\ \E b \in DOMAIN hAll : b \notin DOMAIN history

(***************************************************************************)
(* The task store.  A task is the Redis hash task:{task_id}; a key whose   *)
(* expiry time has come is gone.                                           *)
(***************************************************************************)
MaxStoreCalls == 3
MaxTicks == 2

StoreIds == {"t1"}

OptFields == {"progress", "error_message", "title", "file_path", "download_url"}

\* the clock's steps: a second, and a second less than the retention window
TickSteps == {1, TASK_TTL_SECONDS - 1}

\* EXISTS key
Exists(st, id) == id \in DOMAIN st

\* HSET key mapping: creates the key when absent, overwrites the fields given
HSet(st, id, mapping) ==
    [k \in (DOMAIN st) \cup {id} |->
        IF k # id THEN st[k]
        ELSE IF id \in DOMAIN st
               THEN [f \in (DOMAIN st[id]) \cup (DOMAIN mapping) |->
                        IF f \in DOMAIN mapping THEN mapping[f] ELSE st[id][f]]
               ELSE mapping]

\* the mutation: an expiry already set is kept
ExpireKeep(st, ex, id, ttl, t) ==
    IF id \in DOMAIN st /\ id \notin DOMAIN ex
      THEN [k \in (DOMAIN ex) \cup {id} |-> IF k = id THEN t + ttl ELSE ex[k]]
      ELSE ex

\* EXPIRE key seconds at time t: no effect on a key that does not exist
Expire(st, ex, id, ttl, t) ==
    IF id \in DOMAIN st
      THEN [k \in (DOMAIN ex) \cup {id} |-> IF k = id THEN t + ttl ELSE ex[k]]
      ELSE ex

\* TTL key at time t: -2 without the key, -1 without an expiry
Ttl(st, ex, id, t) ==
    IF id \notin DOMAIN st THEN -2
    ELSE IF id \notin DOMAIN ex THEN -1
    ELSE ex[id] - t

\* the mutation: keys never expire
IsExpiredNever(ex, id, t) == FALSE

\* the key's expiry time has come
IsExpired(ex, id, t) == id \in DOMAIN ex /\ ex[id] <= t

\* the keys left at time t
LiveKeys(st, ex, t) == {k \in DOMAIN st : ~IsExpired(ex, k, t)}

\* store_task: task_data, the hash fields of a DownloadTask
TaskData(task) ==
    [f \in {"url", "status", "progress", "title", "file_path", "download_url",
            "error_message", "options", "created_at", "updated_at"} |-> task[f]]

\* the mutation: a task created as already downloading
NewTaskStarted(id, t) ==
    [url |-> "url", status |-> "DOWNLOADING", progress |-> "queued", title |-> "",
     file_path |-> "", download_url |-> "", error_message |-> "",
     options |-> "options", created_at |-> t, updated_at |-> t]

\* create_task: the DownloadTask it builds at time t
NewTask(id, t) ==
    [url |-> "url", status |-> "PENDING", progress |-> "queued", title |-> "",
     file_path |-> "", download_url |-> "", error_message |-> "",
     options |-> "options", created_at |-> t, updated_at |-> t]

\* the mutation: updated_at is a second behind the clock
UpdateDataStale(args, t) ==
    [f \in {"status", "updated_at"} \cup {g \in OptFields : args[g] # None} |->
        IF f = "updated_at" THEN t - 1 ELSE args[f]]

\* update_task_status: update_data, only the arguments that are not None
UpdateData(args, t) ==
    [f \in {"status", "updated_at"} \cup {g \in OptFields : args[g] # None} |->
        IF f = "updated_at" THEN t ELSE args[f]]

\* the argument lists download_video_task calls update_task_status with
UpdArgs(status, progress, error_message, title, file_path, download_url) ==
    [status |-> status, progress |-> progress, error_message |-> error_message,
     title |-> title, file_path |-> file_path, download_url |-> download_url]

ArgsDownloading(progress) == UpdArgs("DOWNLOADING", progress, None, None, None, None)

ArgsCompleted(title) == UpdArgs("COMPLETED", "done", None, title, "path", "dl_url")

\* the mutation: the FAILED write without the message
ArgsFailedNoMessage(msg) == UpdArgs("FAILED", None, None, None, None, None)

ArgsFailed(msg) == UpdArgs("FAILED", None, msg, None, None, None)

UpdateInputs ==
    {ArgsDownloading("start"), ArgsCompleted("T"), ArgsFailed("error")}

\* retrieve_task: None without the hash, TaskStorageError when a required
\* field is missing, else the DownloadTask with "" for the fields not stored
RetrieveTask(st, id) ==
    IF ~Exists(st, id) THEN None
    ELSE IF ~({"url", "status", "created_at", "updated_at"} \subseteq DOMAIN st[id])
      THEN "TaskStorageError"
    ELSE [f \in {"url", "status", "progress", "title", "file_path", "download_url",
                 "error_message", "created_at", "updated_at"} |->
            IF f \in DOMAIN st[id] THEN st[id][f] ELSE ""]

\* retrieve_task returns a DownloadTask
Retrieved(st, id) ==
    Exists(st, id) /\ {"url", "status", "created_at", "updated_at"} \subseteq DOMAIN st[id]

\* retrieve_task raises TaskStorageError
RetrieveRaises(st, id) == Exists(st, id) /\ ~Retrieved(st, id)

\* task_exists
TaskExists(st, id) == Exists(st, id)

\* get_task_ttl
GetTaskTtl(st, ex, id, t) ==
    IF Ttl(st, ex, id, t) < 0 THEN None ELSE Ttl(st, ex, id, t)

Touch(id, t) == [k \in (DOMAIN lastTouch) \cup {id} |-> IF k = id THEN t ELSE lastTouch[k]]

\* the caller's locals are dropped on return
Return(c, value) ==
    /\ spc' = [spc EXCEPT ![c] = "idle"]
    /\ sres' = [sres EXCEPT ![c] = value]

\* time passes; the keys whose expiry time has come are removed
Tick(d) ==
    /\ nticks < MaxTicks
    /\ nticks' = nticks + 1
    /\ now' = now + d
    /\ store' = [k \in LiveKeys(store, expires, now + d) |-> store[k]]
    /\ expires' = [k \in (DOMAIN expires) \cap LiveKeys(store, expires, now + d) |-> expires[k]]
    /\ UNCHANGED <<spc, sarg, sres, scalls, lastTouch>>
    /\ UNCHANGED notStoreVars

\* a call runs on the first caller that is free
FreeCaller(c) ==
    /\ spc[c] = "idle"
    /\ \A q \in StoreCallers : spc[q] = "idle" => ~(q < c)

\* store_task(task) is called with a task create_task has just built
StoreCall(c, id) ==
    /\ FreeCaller(c)
    /\ scalls < MaxStoreCalls
    /\ scalls' = scalls + 1
    /\ spc' = [spc EXCEPT ![c] = "store_hset"]
    /\ sarg' = [sarg EXCEPT ![c] = [id |-> id, data |-> TaskData(NewTask(id, now))]]
    /\ sres' = [sres EXCEPT ![c] = None]
    /\ UNCHANGED <<store, expires, now, nticks, lastTouch>>
    /\ UNCHANGED notStoreVars

\* _store_operation: await client.hset(key, mapping=data)
StoreHSet(c) ==
    /\ spc[c] = "store_hset"
    /\ store' = HSet(store, sarg[c].id, sarg[c].data)
    /\ lastTouch' = Touch(sarg[c].id, now)
    /\ spc' = [spc EXCEPT ![c] = "store_expire"]
    /\ UNCHANGED <<expires, now, nticks, sarg, sres, scalls>>
    /\ UNCHANGED notStoreVars

\* _store_operation: await client.expire(key, TASK_TTL_SECONDS); return True
StoreExpire(c) ==
    /\ spc[c] = "store_expire"
    /\ expires' = Expire(store, expires, sarg[c].id, TASK_TTL_SECONDS, now)
    /\ lastTouch' = Touch(sarg[c].id, now)
    /\ Return(c, "True")
    /\ sarg' = [sarg EXCEPT ![c] = None]
    /\ UNCHANGED <<store, now, nticks, scalls>>
    /\ UNCHANGED notStoreVars

\* update_task_status(task_id, status, ...) is called
UpdateCall(c, id, args) ==
    /\ FreeCaller(c)
    /\ scalls < MaxStoreCalls
    /\ scalls' = scalls + 1
    /\ spc' = [spc EXCEPT ![c] = "upd_exists"]
    /\ sarg' = [sarg EXCEPT ![c] = [id |-> id, args |-> args, called |-> now]]
    /\ sres' = [sres EXCEPT ![c] = None]
    /\ UNCHANGED <<store, expires, now, nticks, lastTouch>>
    /\ UNCHANGED notStoreVars

\* the mutation: the existence check is skipped
UpdateGoesOnAlways(st, id) == TRUE

\* exists = await ... _check_exists; if not exists: return False
UpdateGoesOn(st, id) == Exists(st, id)

\* _check_exists, then update_data with datetime.now()
UpdateExists(c) ==
    /\ spc[c] = "upd_exists"
    /\ IF UpdateGoesOn(store, sarg[c].id)
         THEN /\ spc' = [spc EXCEPT ![c] = "upd_hset"]
              /\ sarg' = [sarg EXCEPT ![c] =
                            [id |-> sarg[c].id, data |-> UpdateData(sarg[c].args, now),
                             called |-> sarg[c].called]]
              /\ sres' = sres
         ELSE /\ Return(c, "False")
              /\ sarg' = [sarg EXCEPT ![c] = None]
    /\ UNCHANGED <<store, expires, now, nticks, scalls, lastTouch>>
    /\ UNCHANGED notStoreVars

\* _update_operation: await client.hset(key, mapping=data)
UpdateHSet(c) ==
    /\ spc[c] = "upd_hset"
    /\ store' = HSet(store, sarg[c].id, sarg[c].data)
    /\ lastTouch' = Touch(sarg[c].id, now)
    /\ spc' = [spc EXCEPT ![c] = "upd_expire"]
    /\ UNCHANGED <<expires, now, nticks, sarg, sres, scalls>>
    /\ UNCHANGED notStoreVars

\* _update_operation: await client.expire(key, TASK_TTL_SECONDS); return True
UpdateExpire(c) ==
    /\ spc[c] = "upd_expire"
    /\ expires' = Expire(store, expires, sarg[c].id, TASK_TTL_SECONDS, now)
    /\ lastTouch' = Touch(sarg[c].id, now)
    /\ Return(c, "True")
    /\ sarg' = [sarg EXCEPT ![c] = None]
    /\ UNCHANGED <<store, now, nticks, scalls>>
    /\ UNCHANGED notStoreVars

NextStore ==
    \/ \E d \in TickSteps : Tick(d)
    \/ \E c \in StoreCallers, id \in StoreIds : StoreCall(c, id)
    \/ \E c \in StoreCallers : StoreHSet(c)
    \/ \E c \in StoreCallers : StoreExpire(c)
    \/ \E c \in StoreCallers, id \in StoreIds, args \in UpdateInputs : UpdateCall(c, id, args)
    \/ \E c \in StoreCallers : UpdateExists(c)
    \/ \E c \in StoreCallers : UpdateHSet(c)
    \/ \E c \in StoreCallers : UpdateExpire(c)

InitStoreAll == StoreAtRest /\ HistAtRest /\ RunAtRest /\ ListAtRest /\ RetryAtRest /\ TwiceAtRest /\ DupAtRest

SpecStore == InitStoreAll /\ [][NextStore]_vars

(***************************************************************************)
(* C8: update_task_status on an id that has no record returns False at     *)
(* its existence check and changes nothing: no key is created, no field    *)
(* is written, no expiry is set.                                           *)
(***************************************************************************)
UpdateMissingIsNoOp ==
    [][\A c \in StoreCallers :
          (spc[c] = "upd_exists" /\ spc'[c] # "upd_exists" /\ ~Exists(store, sarg[c].id))
            => /\ spc'[c] = "idle"
               /\ sres'[c] = "False"
               /\ store' = store
               /\ expires' = expires]_vars

\* an update of an absent id has returned False
UpdateMissingWitness ==
    \E c \in StoreCallers : sres[c] = "False" /\ spc[c] = "idle" /\ store = << >>

(***************************************************************************)
(* C9: when store_task or update_task_status returns True, the record it   *)
(* wrote, if it is still there, expires a full TASK_TTL_SECONDS later,     *)
(* whatever its expiry was before; and the hset of update_task_status      *)
(* leaves in updated_at a time read during that call.                      *)
(***************************************************************************)
WriteRearmsTtl ==
    [][\A c \in StoreCallers :
          /\ (spc[c] \in {"store_expire", "upd_expire"} /\ spc'[c] = "idle"
                /\ Exists(store', sarg[c].id))
               => /\ sres'[c] = "True"
                  /\ Ttl(store', expires', sarg[c].id, now') = TASK_TTL_SECONDS
                  /\ GetTaskTtl(store', expires', sarg[c].id, now') = TASK_TTL_SECONDS
          /\ (spc[c] = "upd_hset" /\ spc'[c] = "upd_expire")
               => /\ sarg[c].called <= store'[sarg[c].id]["updated_at"]
                  /\ store'[sarg[c].id]["updated_at"] <= now']_vars

\* an update has re-armed the expiry of a record written some time before
WriteRearmsTtlWitness ==
    \E c \in StoreCallers, id \in StoreIds :
        /\ sres[c] = "True" /\ spc[c] = "idle"
        /\ Exists(store, id) /\ id \in DOMAIN expires
        /\ store[id]["status"] # "PENDING"
        /\ store[id]["created_at"] < now
        /\ store[id]["updated_at"] = now
        /\ Ttl(store, expires, id, now) = TASK_TTL_SECONDS

(***************************************************************************)
(* C10: a record on which no command of store_task or update_task_status   *)
(* has run for longer than TASK_TTL_SECONDS, and which no such call is     *)
(* half-way through writing, is gone: retrieve_task returns None,          *)
(* task_exists returns False and update_task_status returns False.         *)
(***************************************************************************)
MidWrite(id) ==
    \E c \in StoreCallers : spc[c] \in {"store_expire", "upd_expire"} /\ sarg[c].id = id

max_retries == 3

ProgressMsgs == {"p1", "p2"}

ErrorMsgs == {"error"}

Titles == {"T"}

\* TaskStorage.update_task_status returns False, the store untouched, when
\* the Redis commands fail after execute_with_retry's attempts
StoreOutcomes == {TRUE, FALSE}

\* store_task on a Redis that answers
StoreAfterStoreTask(st, id, task) == HSet(st, id, TaskData(task))

\* the mutation: an update that finds its status already stored marks the
\* progress
StoreAfterUpdateMarking(st, id, args, t) ==
    IF UpdateGoesOn(st, id)
      THEN HSet(HSet(st, id, UpdateData(args, t)), id,
                [progress |-> IF st[id]["status"] = args["status"]
                                THEN "again" ELSE "first"])
      ELSE st

\* update_task_status on a Redis that answers: nothing without the key
StoreAfterUpdate(st, id, args, t) ==
    IF UpdateGoesOn(st, id) THEN HSet(st, id, UpdateData(args, t)) ELSE st

ExpiresAfterUpdate(st, ex, id, t) ==
    IF UpdateGoesOn(st, id) THEN Expire(st, ex, id, TASK_TTL_SECONDS, t) ELSE ex

\* add_task_to_history on a Redis that answers
AddTaskToHistory(h, id, t) ==
    IF NeedsTrim(ZCard(ZAdd(h, id, t)))
      THEN ZRemRangeByRank(ZAdd(h, id, t), 0, RemoveCount(ZCard(ZAdd(h, id, t))) - 1)
      ELSE ZAdd(h, id, t)

\* the mutation: the write goes ahead without the existence check
RunUpdateBlind(t, args, ok) ==
    /\ store' = IF ok THEN HSet(store, t, UpdateData(args, now)) ELSE store
    /\ expires' = IF ok
                     THEN Expire(HSet(store, t, UpdateData(args, now)), expires, t,
                                 TASK_TTL_SECONDS, now)
                     ELSE expires
    /\ rwrote' = [rwrote EXCEPT ![t] = rwrote[t] \/ ok]
    /\ rfault' = [rfault EXCEPT ![t] = ~ok]

\* the runner's write of args to the hash of t
RunUpdate(t, args, ok) ==
    /\ store' = IF ok THEN StoreAfterUpdate(store, t, args, now) ELSE store
    /\ expires' = IF ok THEN ExpiresAfterUpdate(store, expires, t, now) ELSE expires
    /\ rwrote' = [rwrote EXCEPT ![t] = rwrote[t] \/ (ok /\ UpdateGoesOn(store, t))]
    /\ rfault' = [rfault EXCEPT ![t] = ~ok]

\* update_task_progress(task_id, progress)
ArgsProgress(msg) == ArgsDownloading(msg)

\* the mutation: a failure is recorded as still downloading
ArgsFailedHidden(msg) == UpdArgs("DOWNLOADING", None, msg, None, None, None)

\* the except branch: update_task_status(task_id, FAILED, error_message=str(e))
ArgsOnFailure(msg) == ArgsFailed(msg)

\* the mutation: the hook still fires while the failure is handled
ProgressHookLate(t) == rpc[t] \in {"download", "decide"}

\* yt-dlp calls progress_callback inside downloader.download_video
ProgressHook(t) == rpc[t] = "download"

\* the lines of the try block a download of 1800 seconds has reached
SoftLimitPoints == {"download", "completed", "history", "return"}

\* if self.request.retries < self.max_retries
ShouldRetry(retries) == retries < max_retries

\* the mutation: the same countdown for every retry
RetryCountdownFlat(retries) == 60

\* countdown=60 * (2 ** self.request.retries)
RetryCountdown(retries) == 60 * (2 ^ retries)

\* retry_kwargs={..., 'countdown': 60}
AutoRetryCountdown == 60

\* the countdown Task.retry is called with: by line 112, or by autoretry_for
\* for the exception line 115 raises
Countdown(retries) ==
    IF ShouldRetry(retries) THEN RetryCountdown(retries) ELSE AutoRetryCountdown

\* the mutation: Task.retry without its cap
RetryAcceptedAlways(retries) == TRUE

\* Task.retry queues the message again unless request.retries + 1 exceeds
\* max_retries, in which case it raises the exception of the task
RetryAccepted(retries) == retries + 1 <= max_retries

\* an execution whose soft limit exception was swallowed (the except of
\* progress_callback, line 64) is still in downloader.download_video
HardLimitPoints == {"download"}

\* the status of the task get_task returns, "None" for None
GetTaskStatus(st, t, ok) ==
    IF ok /\ Retrieved(st, t) THEN st[t]["status"] ELSE None

\* the URLs a client may post: one the validator accepts, one it does not
Urls == {"url", "bad"}

InvalidUrls == {"bad"}

\* the mutation: every URL passes
ValidateUrlAny(url) == TRUE

\* the validator of DownloadRequest.url and url_validator.validate_url
ValidateUrl(url) == url \notin InvalidUrls

\* POST /downloads with request.url = url.  A URL that fails validation ends
\* the request before task_id is drawn; else create_task stores the PENDING
\* record under the new id, then download_video_task.delay(...) queues the
\* message
Submit(t, url) ==
    /\ rq[t] = "none"
    /\ ~Exists(store, t)
    /\ rreq' = [rreq EXCEPT ![t] = url]
    /\ IF ValidateUrl(url)
         THEN /\ store' = StoreAfterStoreTask(store, t, NewTask(t, now))
              /\ expires' = Expire(StoreAfterStoreTask(store, t, NewTask(t, now)),
                                   expires, t, TASK_TTL_SECONDS, now)
              /\ rq' = [rq EXCEPT ![t] = "queued"]
              /\ rresp' = [rresp EXCEPT ![t] = "accepted"]
         ELSE /\ rresp' = [rresp EXCEPT ![t] = "rejected"]
              /\ UNCHANGED <<store, expires, rq>>
    /\ UNCHANGED <<history, rretries, rpc, rexc, rtitle, rdelay, rwrote,
                 rfault, rexecs, gres>>
    /\ UNCHANGED submitFrame

\* a worker takes the message and calls download_video_task
Deliver(t) ==
    /\ rq[t] = "queued"
    /\ rq' = [rq EXCEPT ![t] = "running"]
    /\ rpc' = [rpc EXCEPT ![t] = "start"]
    /\ rexecs' = [rexecs EXCEPT ![t] = rexecs[t] + 1]
    /\ UNCHANGED <<store, expires, history, rretries, rexc, rtitle, rdelay,
                 rwrote, rfault, gres>>
    /\ UNCHANGED runFrame

\* update_task_status(task_id, DOWNLOADING, progress="开始下载...")
RunStart(t, ok) ==
    /\ rq[t] = "running" /\ rpc[t] = "start"
    /\ RunUpdate(t, ArgsDownloading("start"), ok)
    /\ rpc' = [rpc EXCEPT ![t] = "download"]
    /\ UNCHANGED <<history, rq, rretries, rexc, rtitle, rdelay, rexecs, gres>>
    /\ UNCHANGED runFrame

\* progress_callback: task_storage.update_task_progress(task_id, progress_msg)
RunProgress(t, msg, ok) ==
    /\ rq[t] = "running" /\ ProgressHook(t)
    /\ RunUpdate(t, ArgsProgress(msg), ok)
    /\ UNCHANGED <<history, rq, rretries, rpc, rexc, rtitle, rdelay,
                 rexecs, gres>>
    /\ UNCHANGED runFrame

\* downloader.download_video returns its result
RunDownloaded(t, title) ==
    /\ rq[t] = "running" /\ rpc[t] = "download"
    /\ rtitle' = [rtitle EXCEPT ![t] = title]
    /\ rpc' = [rpc EXCEPT ![t] = "completed"]
    /\ UNCHANGED <<store, expires, history, rq, rretries, rexc, rdelay,
                 rwrote, rfault, rexecs, gres>>
    /\ UNCHANGED runFrame

\* the mutation: the exception passes by the FAILED write
RunRaisesUnhandled(t, msg) ==
    /\ rq[t] = "running" /\ rpc[t] = "download"
    /\ rexc' = [rexc EXCEPT ![t] = msg]
    /\ rpc' = [rpc EXCEPT ![t] = "decide"]
    /\ UNCHANGED <<store, expires, history, rq, rretries, rtitle, rdelay,
                 rwrote, rfault, rexecs, gres>>
    /\ UNCHANGED runFrame

\* DownloadOptions(**options) or downloader.download_video raises
RunRaises(t, msg) ==
    /\ rq[t] = "running" /\ rpc[t] = "download"
    /\ rexc' = [rexc EXCEPT ![t] = msg]
    /\ rpc' = [rpc EXCEPT ![t] = "except"]
    /\ UNCHANGED <<store, expires, history, rq, rretries, rtitle, rdelay,
                 rwrote, rfault, rexecs, gres>>
    /\ UNCHANGED runFrame

\* task_soft_time_limit: SoftTimeLimitExceeded, an Exception, is raised in
\* the task body where the signal finds it, the COMPLETED write done or not
RunSoftTimeLimit(t) ==
    /\ rq[t] = "running" /\ rpc[t] \in SoftLimitPoints
    /\ rexc' = [rexc EXCEPT ![t] = "timeout"]
    /\ rpc' = [rpc EXCEPT ![t] = "except"]
    /\ UNCHANGED <<store, expires, history, rq, rretries, rtitle, rdelay,
                 rwrote, rfault, rexecs, gres>>
    /\ UNCHANGED runFrame

\* update_task_status(task_id, COMPLETED, progress, file_path, download_url, title)
RunWriteCompleted(t, ok) ==
    /\ rq[t] = "running" /\ rpc[t] = "completed"
    /\ RunUpdate(t, ArgsCompleted(rtitle[t]), ok)
    /\ rpc' = [rpc EXCEPT ![t] = "history"]
    /\ UNCHANGED <<history, rq, rretries, rexc, rtitle, rdelay, rexecs, gres>>
    /\ UNCHANGED runFrame

\* task_storage.add_to_history(task_id)
RunAddToHistory(t, ok) ==
    /\ rq[t] = "running" /\ rpc[t] = "history"
    /\ history' = IF ok THEN AddTaskToHistory(history, t, now) ELSE history
    /\ rpc' = [rpc EXCEPT ![t] = "return"]
    /\ UNCHANGED <<store, expires, rq, rretries, rexc, rtitle, rdelay,
                 rwrote, rfault, rexecs, gres>>
    /\ UNCHANGED runFrame

\* logger.info(...); return {'task_id': task_id, 'status': 'completed', ...}
RunReturn(t) ==
    /\ rq[t] = "running" /\ rpc[t] = "return"
    /\ rq' = [rq EXCEPT ![t] = "succeeded"]
    /\ rpc' = [rpc EXCEPT ![t] = "none"]
    /\ rtitle' = [rtitle EXCEPT ![t] = None]
    /\ UNCHANGED <<store, expires, history, rretries, rexc, rdelay, rwrote,
                 rfault, rexecs, gres>>
    /\ UNCHANGED runFrame

\* except Exception as e: update_task_status(task_id, FAILED, error_message=str(e))
RunWriteFailed(t, ok) ==
    /\ rq[t] = "running" /\ rpc[t] = "except"
    /\ RunUpdate(t, ArgsOnFailure(rexc[t]), ok)
    /\ rpc' = [rpc EXCEPT ![t] = "decide"]
    /\ UNCHANGED <<history, rq, rretries, rexc, rtitle, rdelay, rexecs, gres>>
    /\ UNCHANGED runFrame

\* raise self.retry(countdown=...) while retries are left, else raise e,
\* which autoretry_for hands to Task.retry as well
RunDecide(t) ==
    /\ rq[t] = "running" /\ rpc[t] = "decide"
    /\ IF RetryAccepted(rretries[t])
         THEN /\ rq' = [rq EXCEPT ![t] = "queued"]
              /\ rdelay' = [rdelay EXCEPT ![t] = Countdown(rretries[t])]
              /\ rretries' = [rretries EXCEPT ![t] = rretries[t] + 1]
              /\ rfault' = [rfault EXCEPT ![t] = FALSE]
         ELSE /\ rq' = [rq EXCEPT ![t] = "failed"]
              /\ UNCHANGED <<rdelay, rretries, rfault>>
    /\ rpc' = [rpc EXCEPT ![t] = "none"]
    /\ rexc' = [rexc EXCEPT ![t] = None]
    /\ rtitle' = [rtitle EXCEPT ![t] = None]
    /\ rwrote' = [rwrote EXCEPT ![t] = FALSE]
    /\ UNCHANGED <<store, expires, history, rexecs, gres>>
    /\ UNCHANGED runFrame

\* task_time_limit: the pool kills the process of an execution that is still
\* downloading 60 seconds after its soft limit; no line of the task runs
RunHardLimit(t) ==
    /\ rq[t] = "running" /\ rpc[t] \in HardLimitPoints
    /\ rq' = [rq EXCEPT ![t] = "timedout"]
    /\ rpc' = [rpc EXCEPT ![t] = "none"]
    /\ UNCHANGED <<store, expires, history, rretries, rexc, rtitle, rdelay,
                 rwrote, rfault, rexecs, gres>>
    /\ UNCHANGED runFrame

\* the first TaskStorage.get_task(task_id) after submit_download returned:
\* the task, or None when there is no hash or anything raised
Get(t, ok) ==
    /\ rq[t] # "none" /\ gres[t] = "unread"
    /\ gres' = [gres EXCEPT ![t] = GetTaskStatus(store, t, ok)]
    /\ UNCHANGED <<store, expires, history, rq, rretries, rpc, rexc, rtitle, rdelay,
                 rwrote, rfault, rexecs>>
    /\ UNCHANGED runFrame

\* the steps of a submission and of the executions of its task
RunSteps ==
    \/ \E t \in RunIds, url \in Urls : Submit(t, url)
    \/ \E t \in RunIds : Deliver(t)
    \/ \E t \in RunIds, ok \in StoreOutcomes : RunStart(t, ok)
    \/ \E t \in RunIds, msg \in ProgressMsgs, ok \in StoreOutcomes : RunProgress(t, msg, ok)
    \/ \E t \in RunIds, title \in Titles : RunDownloaded(t, title)
    \/ \E t \in RunIds, msg \in ErrorMsgs : RunRaises(t, msg)
    \/ \E t \in RunIds : RunSoftTimeLimit(t)
    \/ \E t \in RunIds, ok \in StoreOutcomes : RunWriteCompleted(t, ok)
    \/ \E t \in RunIds, ok \in StoreOutcomes : RunAddToHistory(t, ok)
    \/ \E t \in RunIds : RunReturn(t)
    \/ \E t \in RunIds, ok \in StoreOutcomes : RunWriteFailed(t, ok)
    \/ \E t \in RunIds : RunDecide(t)
    \/ \E t \in RunIds : RunHardLimit(t)

NextRun ==
    \/ \E d \in TickSteps : Tick(d)
    \/ RunSteps

\* a submission, its executions, and the client's first get_task
NextGet ==
    \/ RunSteps
    \/ \E t \in RunIds, ok \in StoreOutcomes : Get(t, ok)

InitRunAll == RunAtRest /\ StoreAtRest /\ HistAtRest /\ ListAtRest /\ RetryAtRest /\ TwiceAtRest /\ DupAtRest

SpecRun == InitRunAll /\ [][NextRun]_vars

SpecGet == InitRunAll /\ [][NextGet]_vars

Terminal == {"COMPLETED", "FAILED"}

\* the stored value of a field, "" when the hash does not hold it
Field(st, t, f) == IF f \in DOMAIN st[t] THEN st[t][f] ELSE ""

Running == {"PENDING", "DOWNLOADING"}

ResultFields == {"title", "file_path", "download_url"}

\* the step is the first write of a retry of download_video_task
FirstWriteOfRetry(t) ==
    /\ rq[t] = "running" /\ rretries[t] >= 1
    /\ ~rwrote[t] /\ rwrote'[t]

(***************************************************************************)
(* C3: every id of the history index whose record exists in the store has  *)
(* status COMPLETED.  The code refutes it: the runner calls add_to_history *)
(* whatever update_task_status returned for the COMPLETED write.           *)
(***************************************************************************)
HistoryOnlyCompleted ==
    \A t \in RunIds :
        (t \in DOMAIN history /\ Exists(store, t)) => store[t]["status"] = "COMPLETED"

(***************************************************************************)
(* C4: monotonic terminality.  A step that takes the status of a record    *)
(* from COMPLETED or FAILED to PENDING or DOWNLOADING is the first write   *)
(* to reach the store of a retry of download_video_task, and it sets       *)
(* DOWNLOADING.                                                            *)
(***************************************************************************)
MonotonicTerminality ==
    [][\A t \in RunIds :
        (/\ Exists(store, t) /\ store[t]["status"] \in Terminal
         /\ Exists(store', t) /\ store'[t]["status"] \in Running)
        => (FirstWriteOfRetry(t) /\ store'[t]["status"] = "DOWNLOADING")]_vars

\* a retry has made its first write over a FAILED record
MonotonicTerminalityWitness ==
    \E t \in RunIds :
        /\ rq[t] = "running" /\ rpc[t] = "download" /\ rretries[t] >= 1
        /\ rwrote[t]
        /\ Exists(store, t) /\ store[t]["status"] = "DOWNLOADING"
        /\ store[t]["progress"] = "start"
        /\ store[t]["error_message"] = "error"

(***************************************************************************)
(* C5: error_message is empty unless the status is FAILED.  The code       *)
(* refutes it: the DOWNLOADING and COMPLETED writes pass no error_message, *)
(* and update_data leaves out what is None, so the error of a failed       *)
(* attempt stays in the record.                                            *)
(***************************************************************************)
ErrorOnlyWhenFailed ==
    \A t \in RunIds :
        (Exists(store, t) /\ store[t]["status"] # "FAILED")
        => Field(store, t, "error_message") = ""

(***************************************************************************)
(* C6: title, file_path and download_url are empty unless the status is    *)
(* COMPLETED.  The code refutes it: a FAILED or DOWNLOADING write that     *)
(* follows the COMPLETED write leaves the three fields as they are.        *)
(***************************************************************************)
ResultOnlyWhenCompleted ==
    \A t \in RunIds :
        (Exists(store, t) /\ store[t]["status"] # "COMPLETED")
        => \A f \in ResultFields : Field(store, t, f) = ""

FailedPosition(t) ==
    \/ rq[t] = "running" /\ rpc[t] = "decide"
    \/ rq[t] = "queued" /\ rretries[t] >= 1
    \/ rq[t] # "none" /\ rretries[t] >= 1 /\ ~rwrote[t]
    \/ rq[t] = "failed" /\ rretries[t] = max_retries

MaxLists == 2

ListIds == {1, 2, 3}

\* limit: none at all, a short page, and the default
ListLimits == {0, 2, MAX_HISTORY_SIZE}

\* the record of a task that has completed
CompleteRecord(id) ==
    HSet(HSet(<< >>, id, TaskData(NewTask(id, 0))), id, UpdateData(ArgsCompleted("T"), 0))[id]

\* a hash that only update_task_status has written
PartialRecord == UpdateData(ArgsDownloading("p1"), 0)

\* the expiry times of the records at the start
ListExpiry(id) == IF id = 1 THEN 1 ELSE TASK_TTL_SECONDS

InitList ==
    /\ \E S \in SUBSET ListIds : history = [i \in S |-> i]
    /\ \E T \in SUBSET ListIds : \E P \in SUBSET T :
          /\ store = [i \in T |-> IF i \in P THEN PartialRecord ELSE CompleteRecord(i)]
          /\ expires = [i \in T |-> ListExpiry(i)]
    /\ hAll = << >> /\ hord = << >> /\ hclock = 0 /\ hcalls = 0
    /\ hpc = [r \in HistRunners |-> "idle"]
    /\ hid = [r \in HistRunners |-> 0]
    /\ hts = [r \in HistRunners |-> 0]
    /\ hcnt = [r \in HistRunners |-> 0]
    /\ now = 0 /\ nticks = 0 /\ scalls = 0 /\ lastTouch = << >>
    /\ spc = [c \in StoreCallers |-> "idle"]
    /\ sarg = [c \in StoreCallers |-> None]
    /\ sres = [c \in StoreCallers |-> None]

\* ZREVRANGE key start stop, 0 <= start: members from the highest score
\* down; a negative stop counts from the end, -1 being the last member
ZRevRange(h, start, stop) ==
    [i \in 1 .. (Min(ZIndex(h, stop), ZCard(h) - 1) - start + 1) |->
        CHOOSE a \in DOMAIN h : ZCard(h) - 1 - ZRank(h, a) = start + i - 1]

\* if limit is None: limit = MAX_HISTORY_SIZE
LimitOrDefault(given, limit) == IF given THEN limit ELSE MAX_HISTORY_SIZE

\* get_download_history(redis_client, limit): client.zrevrange(key, 0, limit - 1)
HistoryIds(h, given, limit) == ZRevRange(h, 0, LimitOrDefault(given, limit) - 1)

\* get_download_history(redis_client, limit), called on its own
GetDownloadHistory(given, limit) ==
    /\ lcalls < MaxLists
    /\ lcalls' = lcalls + 1
    /\ lres' = [op |-> "get_download_history",
                limit |-> LimitOrDefault(given, limit),
                range |-> HistoryIds(history, given, limit),
                tasks |-> << >>,
                faults |-> {}, raised |-> FALSE]
    /\ UNCHANGED <<history, store, expires>>
    /\ UNCHANGED listFrame

\* ZREM key member
ZRem(h, member) == [x \in (DOMAIN h) \ {member} |-> h[x]]

\* the tasks a listing collects from the ids of its range
TasksOf(st, ids) ==
    [i \in 1 .. Len(SelectSeq(ids, LAMBDA a : Retrieved(st, a))) |->
        RetrieveTask(st, SelectSeq(ids, LAMBDA a : Retrieved(st, a))[i])]

\* the index once remove_task_from_history has run for every id of the range,
\* whatever retrieve_task did for it
WithoutUnresolved(h, st, ids) ==
    [x \in (DOMAIN h) \ {ids[i] : i \in {j \in 1 .. Len(ids) : ~Retrieved(st, ids[j])}} |-> h[x]]

\* the index once remove_task_from_history has run for the ids of the range
\* that retrieve_task found no hash for
WithoutMissing(h, st, ids) ==
    [x \in (DOMAIN h) \ {ids[i] : i \in {j \in 1 .. Len(ids) : ~Exists(st, ids[j])}} |-> h[x]]

\* the ids of a sequence
Members(ids) == {ids[i] : i \in 1 .. Len(ids)}

\* the ids of the range for which the Redis command of the loop succeeds,
\* F being the ids whose command fails after the attempts of execute_with_retry
Reached(ids, F) == SelectSeq(ids, LAMBDA a : a \notin F)

\* the sets of ids whose HGETALL may fail in one listing: ids of its range
Faults(limit, ok) ==
    SUBSET (IF ok THEN Members(ZRevRange(history, 0, limit - 1)) ELSE {})

\* the sets of ids whose ZREM may fail: ids that retrieve_task returned None for
RemovalFaults(limit, ok, F) ==
    SUBSET (IF ok THEN {a \in Members(ZRevRange(history, 0, limit - 1)) \ F :
                           ~Exists(store, a)}
                  ELSE {})

\* get_download_history_with_tasks(redis_client, limit).  ok: the ZREVRANGE of
\* get_download_history succeeds, else its TaskStorageError is raised again;
\* F: the ids whose HGETALL fails, so that retrieve_task raises
\* TaskStorageError; Z: the ids whose ZREM fails, so that
\* remove_task_from_history raises it.  Both are caught in the loop.
ListWithTasks(limit, ok, F, Z) ==
    /\ lcalls < MaxLists
    /\ F \in Faults(limit, ok)
    /\ Z \in RemovalFaults(limit, ok, F)
    /\ lcalls' = lcalls + 1
    /\ history' = IF ok
                     THEN WithoutMissing(history, store,
                                         Reached(ZRevRange(history, 0, limit - 1), F \cup Z))
                     ELSE history
    /\ lres' = [op |-> "get_download_history_with_tasks",
                limit |-> limit,
                range |-> IF ok THEN ZRevRange(history, 0, limit - 1) ELSE << >>,
                tasks |-> IF ok
                            THEN TasksOf(store, Reached(ZRevRange(history, 0, limit - 1), F))
                            ELSE << >>,
                faults |-> F, raised |-> ~ok]
    /\ UNCHANGED <<store, expires>>
    /\ UNCHANGED listFrame

\* get_history(redis_client, limit): any exception of the loop ends in return []
GetHistory(limit) ==
    /\ lcalls < MaxLists
    /\ lcalls' = lcalls + 1
    /\ lres' = [op |-> "get_history",
                limit |-> limit,
                range |-> ZRevRange(history, 0, limit - 1),
                tasks |-> IF \E i \in 1 .. Len(ZRevRange(history, 0, limit - 1)) :
                                RetrieveRaises(store, ZRevRange(history, 0, limit - 1)[i])
                            THEN << >>
                            ELSE TasksOf(store, ZRevRange(history, 0, limit - 1)),
                faults |-> {}, raised |-> FALSE]
    /\ UNCHANGED <<history, store, expires>>
    /\ UNCHANGED listFrame

NextList ==
    \/ \E d \in TickSteps : Tick(d)
    \/ \E limit \in ListLimits, ok \in BOOLEAN :
          \E F \in Faults(limit, ok) : \E Z \in RemovalFaults(limit, ok, F) :
              ListWithTasks(limit, ok, F, Z)
    \/ \E limit \in ListLimits : GetHistory(limit)
    \/ \E limit \in ListLimits : GetDownloadHistory(TRUE, limit)
    \/ GetDownloadHistory(FALSE, 0)

InitListAll == InitList /\ RunAtRest /\ ListAtRest /\ RetryAtRest /\ TwiceAtRest /\ DupAtRest

SpecList == InitListAll /\ [][NextList]_vars

(***************************************************************************)
(* C11: a listing removes from the index every id of its range whose       *)
(* record is missing.  The code refutes it for get_history, which skips    *)
(* the id and leaves the index as it is.                                   *)
(***************************************************************************)
ListingRemovesMissing ==
    [][lcalls' = lcalls + 1 =>
        \A i \in 1 .. Len(lres'.range) :
            ~Exists(store, lres'.range[i]) => lres'.range[i] \notin DOMAIN history']_vars

\* the step is the retry decision of an execution that has failed
Decides(t) == rq[t] = "running" /\ rpc[t] = "decide" /\ rq'[t] # "running"

(***************************************************************************)
(* C12: retry cap.  The decision of a failed execution queues a retry      *)
(* exactly when request.retries < max_retries; with request.retries at     *)
(* max_retries the error is raised, nothing is queued, and the retry count *)
(* never exceeds max_retries.                                              *)
(***************************************************************************)
RetryCap ==
    /\ [](\A t \in RunIds : rretries[t] <= max_retries)
    /\ [][\A t \in RunIds : Decides(t) =>
            /\ (rq'[t] = "queued") <=> (rretries[t] < max_retries)
            /\ rretries[t] >= max_retries =>
                  (rq'[t] = "failed" /\ rretries'[t] = rretries[t]
                   /\ rdelay'[t] = rdelay[t])]_vars

\* the execution with request.retries = max_retries has failed and given up
RetryCapWitness ==
    \E t \in RunIds :
        rq[t] = "failed" /\ rretries[t] = max_retries /\ rdelay[t] = 240

AtMostThreeExecutions == \A t \in RunIds : rexecs[t] <= 3

\* the step is the client's first get_task for t
FirstGet(t) == gres[t] = "unread" /\ gres'[t] # "unread"

CreateKeepsExisting ==
    [][\A c \in StoreCallers :
        (spc[c] = "store_hset" /\ spc'[c] # "store_hset" /\ Exists(store, sarg[c].id))
        => store' = store]_vars

RefusedWriteIsFailure ==
    \A t \in RunIds :
        (rq[t] = "succeeded" \/ (rq[t] = "running" /\ rpc[t] \in {"history", "return"}))
        => ~rfault[t]

(***************************************************************************)
(* C20: an execution ended by the hard time limit does not leave its       *)
(* record in DOWNLOADING.  The code refutes it: the process is killed and  *)
(* no write of FAILED is made for the task.                                *)
(***************************************************************************)
HardLimitLeavesFailed ==
    \A t \in RunIds :
        (rq[t] = "timedout" /\ Exists(store, t)) => store[t]["status"] # "DOWNLOADING"

(***************************************************************************)
(* Liveness of a submission.  The broker hands every queued message to a   *)
(* worker, every call of the task returns or raises, and Redis answers     *)
(* every command: the steps of the runner with the store available, each   *)
(* taken if it stays enabled.  progress_callback may fire any number of    *)
(* times, but the download ends.                                           *)
(***************************************************************************)
StoreAvailable == {TRUE}

\* a step that takes the message or the execution of t forward
Advance(t) ==
    \/ Deliver(t)
    \/ \E ok \in StoreAvailable : RunStart(t, ok)
    \/ \E title \in Titles : RunDownloaded(t, title)
    \/ \E msg \in ErrorMsgs : RunRaises(t, msg)
    \/ RunSoftTimeLimit(t)
    \/ \E ok \in StoreAvailable : RunWriteCompleted(t, ok)
    \/ \E ok \in StoreAvailable : RunAddToHistory(t, ok)
    \/ RunReturn(t)
    \/ \E ok \in StoreAvailable : RunWriteFailed(t, ok)
    \/ RunDecide(t)
    \/ RunHardLimit(t)

NextLive ==
    \/ \E t \in RunIds, url \in Urls : Submit(t, url)
    \/ \E t \in RunIds : Deliver(t)
    \/ \E t \in RunIds, ok \in StoreAvailable : RunStart(t, ok)
    \/ \E t \in RunIds, msg \in ProgressMsgs, ok \in StoreAvailable : RunProgress(t, msg, ok)
    \/ \E t \in RunIds, title \in Titles : RunDownloaded(t, title)
    \/ \E t \in RunIds, msg \in ErrorMsgs : RunRaises(t, msg)
    \/ \E t \in RunIds : RunSoftTimeLimit(t)
    \/ \E t \in RunIds, ok \in StoreAvailable : RunWriteCompleted(t, ok)
    \/ \E t \in RunIds, ok \in StoreAvailable : RunAddToHistory(t, ok)
    \/ \E t \in RunIds : RunReturn(t)
    \/ \E t \in RunIds, ok \in StoreAvailable : RunWriteFailed(t, ok)
    \/ \E t \in RunIds : RunDecide(t)
    \/ \E t \in RunIds : RunHardLimit(t)

Fairness == \A t \in RunIds : WF_vars(Advance(t))

SpecLive == InitRunAll /\ [][NextLive]_vars /\ Fairness

(***************************************************************************)
(* C21: every task submit_download has accepted reaches a point from which *)
(* its status is COMPLETED or FAILED for good.  The code refutes it: an    *)
(* execution killed at the hard time limit writes nothing, is not          *)
(* delivered again, and its record stays in DOWNLOADING.                   *)
(***************************************************************************)
EventuallyTerminal ==
    \A t \in RunIds :
        [](rq[t] # "none" => <>[](Exists(store, t) /\ store[t]["status"] \in Terminal))

(***************************************************************************)
(* RedisClient.execute_with_retry (backend/app/services/redis_client.py):  *)
(* one pass of its loop per attempt, the sleep and the reconnection        *)
(* between two attempts.                                                   *)
(***************************************************************************)
MaxRetryCalls == 2

\* max_retries = 3, the local of execute_with_retry
execute_max_retries == 3

\* what async with self.get_client(): return await operation(client, ...)
\* can end in: the value, an error of redis.exceptions, or an exception of
\* the operation itself, which no except clause of the loop catches
OperationOutcomes ==
    {"ok", "ConnectionError", "TimeoutError", "RedisError", "Exception"}

\* except (ConnectionError, TimeoutError); "NotConnected" is the
\* ConnectionError("Redis client not connected") of get_client
Retried == {"ConnectionError", "TimeoutError", "NotConnected"}

\* if attempt == max_retries - 1
LastAttempt(a) == a = execute_max_retries - 1

\* the mutation: the delay is not doubled
NextDelayFlat(d) == d

\* retry_delay *= 2
NextDelay(d) == d * 2

\* the mutation: the operation is called on a client that is not connected
AttemptOutcomeInvokes(connected, out) == out

\* get_client raises ConnectionError before the operation is called when
\* the client is not connected
AttemptOutcome(connected, out) == IF connected THEN out ELSE "NotConnected"

\* execute_with_retry(operation, ...) is called: max_retries = 3, retry_delay = 1
RetryCall ==
    /\ epc = "idle"
    /\ ecalls < MaxRetryCalls
    /\ ecalls' = ecalls + 1
    /\ epc' = "try"
    /\ attempt' = 0
    /\ retry_delay' = 1
    /\ slept' = << >>
    /\ tried' = << >>
    /\ eres' = None
    /\ UNCHANGED is_connected
    /\ UNCHANGED notRetryVars

\* one pass of the loop up to its return, its raise, or the sleep
RetryTry(out) ==
    /\ epc = "try"
    /\ ~is_connected => out = "ConnectionError"
    /\ tried' = Append(tried, AttemptOutcome(is_connected, out))
    /\ IF AttemptOutcome(is_connected, out) = "ok"
         THEN /\ epc' = "idle"
              /\ eres' = "returned"
              /\ UNCHANGED is_connected
         ELSE IF AttemptOutcome(is_connected, out) \in Retried
           THEN /\ is_connected' = FALSE
                /\ IF LastAttempt(attempt)
                     THEN epc' = "idle" /\ eres' = AttemptOutcome(is_connected, out)
                     ELSE epc' = "sleep" /\ eres' = eres
           ELSE /\ epc' = "idle"
                /\ eres' = AttemptOutcome(is_connected, out)
                /\ UNCHANGED is_connected
    /\ UNCHANGED <<attempt, retry_delay, slept, ecalls>>
    /\ UNCHANGED notRetryVars

\* await asyncio.sleep(retry_delay); retry_delay *= 2
RetrySleep ==
    /\ epc = "sleep"
    /\ slept' = Append(slept, retry_delay)
    /\ retry_delay' = NextDelay(retry_delay)
    /\ epc' = "connect"
    /\ UNCHANGED <<attempt, is_connected, tried, eres, ecalls>>
    /\ UNCHANGED notRetryVars

\* try: await self.connect() except Exception: pass; the next pass begins
RetryConnect(ok) ==
    /\ epc = "connect"
    /\ is_connected' = ok
    /\ attempt' = attempt + 1
    /\ epc' = "try"
    /\ UNCHANGED <<retry_delay, slept, tried, eres, ecalls>>
    /\ UNCHANGED notRetryVars

NextRetry ==
    \/ RetryCall
    \/ \E out \in OperationOutcomes : RetryTry(out)
    \/ RetrySleep
    \/ \E ok \in BOOLEAN : RetryConnect(ok)

InitRetry ==
    /\ epc = "idle"
    /\ attempt = 0
    /\ retry_delay = 0
    /\ is_connected \in BOOLEAN
    /\ slept = << >>
    /\ tried = << >>
    /\ eres = None
    /\ ecalls = 0

InitRetryAll == InitRetry /\ HistAtRest /\ StoreAtRest /\ RunAtRest /\ ListAtRest /\ TwiceAtRest /\ DupAtRest

SpecRetry == InitRetryAll /\ [][NextRetry]_vars

(***************************************************************************)
(* C22: execute_with_retry makes at most 3 attempts; it sleeps 1 second    *)
(* after a ConnectionError or TimeoutError of the first attempt and 2      *)
(* after one of the second; a success ends the call at once with the       *)
(* value returned; a call ends before its third attempt only by a success  *)
(* or an error that is not retried, and a ConnectionError or TimeoutError  *)
(* of the third attempt is raised to the caller.                           *)
(***************************************************************************)
ExecuteWithRetryBound ==
    /\ [](Len(tried) <= 3 /\ slept \in {<< >>, <<1>>, <<1, 2>>})
    /\ [](epc = "try" => (Len(tried) = attempt /\ Len(slept) = attempt))
    /\ [](\A i \in 1 .. Len(tried) :
            /\ i < Len(tried) => tried[i] \in Retried
            /\ (i = Len(tried) /\ tried[i] \notin Retried) => epc = "idle"
            /\ (i = 3 /\ tried[i] \in Retried) => (epc = "idle" /\ eres = tried[i]))
    /\ [](eres = "returned" <=>
            (epc = "idle" /\ tried # << >> /\ tried[Len(tried)] = "ok"))
    /\ [](eres \in Retried => (epc = "idle" /\ Len(tried) = 3 /\ slept = <<1, 2>>))
    /\ [](epc = "idle" => Len(slept) = Len(tried) - (IF tried = << >> THEN 0 ELSE 1))

\* three attempts have failed and the last error went to the caller
ExecuteWithRetryBoundWitness ==
    /\ epc = "idle" /\ eres = "TimeoutError"
    /\ Len(tried) = 3 /\ slept = <<1, 2>>

(***************************************************************************)
(* update_task_status applied twice with the same arguments to a record    *)
(* that exists: the record and the arguments are drawn at the start, time  *)
(* may pass before and between the two calls.                              *)
(***************************************************************************)
TaskStatuses == {"PENDING", "DOWNLOADING", "COMPLETED", "FAILED"}

\* every way to pass or leave out the five optional arguments
AllUpdArgs ==
    {UpdArgs(status, progress, error_message, title, file_path, download_url) :
        status \in TaskStatuses, progress \in {None, "p"},
        error_message \in {None, "e"}, title \in {None, "t"},
        file_path \in {None, "f"}, download_url \in {None, "d"}}

\* records a task goes through: as created, completed, failed
ExistingRecords(id) ==
    {TaskData(NewTask(id, 0)),
     CompleteRecord(id),
     HSet(HSet(<< >>, id, TaskData(NewTask(id, 0))), id, UpdateData(ArgsFailed("error"), 0))[id]}

InitTwice ==
    /\ \E rec \in ExistingRecords("t1") : store = [id \in StoreIds |-> rec]
    /\ expires = [id \in StoreIds |-> TASK_TTL_SECONDS]
    /\ uargs \in AllUpdArgs
    /\ uapplied = 0
    /\ uonce = << >>
    /\ now = 0 /\ nticks = 0 /\ scalls = 0 /\ lastTouch = << >>
    /\ spc = [c \in StoreCallers |-> "idle"]
    /\ sarg = [c \in StoreCallers |-> None]
    /\ sres = [c \in StoreCallers |-> None]

\* update_task_status(task_id, **uargs) runs from its call to its return
UpdateAgain(id) ==
    /\ uapplied < 2
    /\ uapplied' = uapplied + 1
    /\ store' = StoreAfterUpdate(store, id, uargs, now)
    /\ expires' = ExpiresAfterUpdate(store, expires, id, now)
    /\ uonce' = IF uapplied = 0 THEN StoreAfterUpdate(store, id, uargs, now) ELSE uonce
    /\ UNCHANGED uargs
    /\ UNCHANGED <<now, nticks, spc, sarg, sres, scalls, lastTouch>>
    /\ UNCHANGED <<histVars, runVars, listVars, retryVars, dupVars>>

NextTwice ==
    \/ \E d \in TickSteps : Tick(d)
    \/ \E id \in StoreIds : UpdateAgain(id)

InitTwiceAll == InitTwice /\ HistAtRest /\ RunAtRest /\ ListAtRest /\ RetryAtRest /\ DupAtRest

SpecTwice == InitTwiceAll /\ [][NextTwice]_vars

\* two records with the same fields, and the same values but for updated_at
SameButStamp(r1, r2) ==
    /\ DOMAIN r1 = DOMAIN r2
    /\ \A f \in (DOMAIN r1) \ {"updated_at"} : r1[f] = r2[f]

(***************************************************************************)
(* C23: idempotence of update.  For every existing record and every set of *)
(* arguments, the record after two applications of update_task_status with *)
(* these arguments is the record after one, apart from updated_at.         *)
(***************************************************************************)
UpdateIdempotent ==
    \A id \in StoreIds :
        (uapplied = 2 /\ Exists(store, id) /\ Exists(uonce, id))
        => SameButStamp(store[id], uonce[id])

\* the same FAILED update has run twice, a second apart, on a completed record
UpdateIdempotentWitness ==
    \E id \in StoreIds :
        /\ uapplied = 2 /\ Exists(store, id) /\ Exists(uonce, id)
        /\ uargs = ArgsFailed("e")
        /\ store[id]["status"] = "FAILED" /\ store[id]["title"] = "T"
        /\ uonce[id]["updated_at"] < store[id]["updated_at"]

InvalidIsRejected ==
    /\ [](\A t \in RunIds :
            rreq[t] \in InvalidUrls =>
                /\ rresp[t] = "rejected"
                /\ rq[t] = "none" /\ rexecs[t] = 0
                /\ ~Exists(store, t) /\ t \notin DOMAIN history)
    /\ [](\A t \in RunIds :
            (rq[t] # "none" \/ rexecs[t] > 0) =>
                (rresp[t] = "accepted" /\ rreq[t] \notin InvalidUrls))
    /\ [][\A t \in RunIds :
            (rreq'[t] \in InvalidUrls /\ rreq'[t] # rreq[t]) =>
                (store' = store /\ expires' = expires /\ history' = history
                 /\ rq' = rq /\ rexecs' = rexecs)]_vars

\* a URL that fails validation was posted, and nothing exists for it
InvalidIsRejectedWitness ==
    \E t \in RunIds :
        /\ rreq[t] = "bad" /\ rresp[t] = "rejected"
        /\ rq[t] = "none" /\ store = << >>

(***************************************************************************)
(* C26: over the lifetime of a task, from the record create_task stores    *)
(* through the DOWNLOADING, progress, COMPLETED and FAILED writes of its   *)
(* executions, updated_at never decreases, and is never before created_at. *)
(***************************************************************************)
UpdatedAtMonotonic ==
    /\ [](\A t \in RunIds :
            Exists(store, t) => store[t]["created_at"] <= store[t]["updated_at"])
    /\ [][\A t \in RunIds :
            (Exists(store, t) /\ Exists(store', t))
            => /\ store[t]["updated_at"] <= store'[t]["updated_at"]
               /\ store'[t]["created_at"] = store[t]["created_at"]]_vars

\* the retry of a failed execution has written the record, after both
\* steps of the clock and later than the creation
UpdatedAtMonotonicWitness ==
    \E t \in RunIds :
        /\ Exists(store, t) /\ rretries[t] >= 1 /\ rwrote[t]
        /\ store[t]["status"] = "DOWNLOADING"
        /\ store[t]["created_at"] < store[t]["updated_at"]
        /\ store[t]["updated_at"] = now /\ nticks = MaxTicks

(***************************************************************************)
(* C27: a progress write changes only progress and updated_at: it leaves   *)
(* status, title, file_path, download_url and error_message as they are.   *)
(* The code refutes it: update_task_progress is update_task_status with    *)
(* status DOWNLOADING, so it replaces whatever status the record has.      *)
(***************************************************************************)
ProgressWriteKeepsStatus ==
    [][\A t \in RunIds :
        (/\ rq[t] = "running" /\ rpc[t] = "download" /\ rpc'[t] = "download"
         /\ Exists(store, t) /\ Exists(store', t) /\ now' = now)
        => \A f \in {"status", "title", "file_path", "download_url", "error_message"} :
              store'[t][f] = store[t][f]]_vars

(***************************************************************************)
(* Duplicate delivery.  With task_acks_late and task_reject_on_worker_lost *)
(* the broker may hand the message of one submission to a worker twice;    *)
(* the two executions of download_video_task(task_id, url, options) run    *)
(* one after the other or side by side, both up to their return.  The      *)
(* history holds the ids completed before, the record is the PENDING one   *)
(* submit_download stored.                                                 *)
(***************************************************************************)
\* the task_id of the message, an id that sorts below those in the history
DupTask == 1

\* result['title'] as each of the two downloads reports it
DupTitles == [e \in Deliveries |-> IF e = 1 THEN "T1" ELSE "T2"]

InitDup ==
    /\ \E k \in {MAX_HISTORY_SIZE - 1, MAX_HISTORY_SIZE} :
          /\ history = [i \in PrefillIds(k) |-> i]
          /\ hAll = [i \in PrefillIds(k) |-> i]
          /\ hord = [i \in PrefillIds(k) |-> i]
          /\ hclock = k + 1
          /\ now = k + 1
          /\ store = StoreAfterStoreTask(<< >>, DupTask, NewTask(DupTask, k + 1))
          /\ expires = Expire(StoreAfterStoreTask(<< >>, DupTask, NewTask(DupTask, k + 1)),
                              << >>, DupTask, TASK_TTL_SECONDS, k + 1)
    /\ hpc = [r \in HistRunners |-> "idle"]
    /\ hid = [r \in HistRunners |-> 0]
    /\ hts = [r \in HistRunners |-> 0]
    /\ hcnt = [r \in HistRunners |-> 0]
    /\ hcalls = 0
    /\ nticks = 0 /\ scalls = 0 /\ lastTouch = << >>
    /\ spc = [c \in StoreCallers |-> "idle"]
    /\ sarg = [c \in StoreCallers |-> None]
    /\ sres = [c \in StoreCallers |-> None]
    /\ dpc = [e \in Deliveries |-> "queued"]
    /\ dtitle = [e \in Deliveries |-> None]

\* a write of one execution to the hash of the task
DupUpdate(args, ok) ==
    /\ store' = IF ok THEN StoreAfterUpdate(store, DupTask, args, now) ELSE store
    /\ expires' = IF ok THEN ExpiresAfterUpdate(store, expires, DupTask, now) ELSE expires

\* a worker takes the message
DupDeliver(e) ==
    /\ dpc[e] = "queued"
    /\ dpc' = [dpc EXCEPT ![e] = "start"]
    /\ UNCHANGED <<store, expires, history, dtitle>>
    /\ UNCHANGED dupFrame

\* update_task_status(task_id, DOWNLOADING, progress="开始下载...")
DupStart(e, ok) ==
    /\ dpc[e] = "start"
    /\ DupUpdate(ArgsDownloading("start"), ok)
    /\ dpc' = [dpc EXCEPT ![e] = "download"]
    /\ UNCHANGED <<history, dtitle>>
    /\ UNCHANGED dupFrame

\* progress_callback: task_storage.update_task_progress(task_id, progress_msg)
DupProgress(e, msg, ok) ==
    /\ dpc[e] = "download"
    /\ DupUpdate(ArgsProgress(msg), ok)
    /\ UNCHANGED <<history, dpc, dtitle>>
    /\ UNCHANGED dupFrame

\* downloader.download_video returns its result
DupDownloaded(e) ==
    /\ dpc[e] = "download"
    /\ dtitle' = [dtitle EXCEPT ![e] = DupTitles[e]]
    /\ dpc' = [dpc EXCEPT ![e] = "completed"]
    /\ UNCHANGED <<store, expires, history>>
    /\ UNCHANGED dupFrame

\* update_task_status(task_id, COMPLETED, progress, file_path, download_url, title)
DupWriteCompleted(e, ok) ==
    /\ dpc[e] = "completed"
    /\ DupUpdate(ArgsCompleted(dtitle[e]), ok)
    /\ dpc' = [dpc EXCEPT ![e] = "history"]
    /\ UNCHANGED <<history, dtitle>>
    /\ UNCHANGED dupFrame

\* task_storage.add_to_history(task_id)
DupAddToHistory(e, ok) ==
    /\ dpc[e] = "history"
    /\ history' = IF ok THEN AddTaskToHistory(history, DupTask, now) ELSE history
    /\ dpc' = [dpc EXCEPT ![e] = "return"]
    /\ UNCHANGED <<store, expires, dtitle>>
    /\ UNCHANGED dupFrame

\* return {'task_id': task_id, 'status': 'completed', ...}
DupReturn(e) ==
    /\ dpc[e] = "return"
    /\ dpc' = [dpc EXCEPT ![e] = "succeeded"]
    /\ UNCHANGED <<store, expires, history, dtitle>>
    /\ UNCHANGED dupFrame

NextDup ==
    \/ \E d \in TickSteps : Tick(d)
    \/ \E e \in Deliveries : DupDeliver(e)
    \/ \E e \in Deliveries, ok \in StoreOutcomes : DupStart(e, ok)
    \/ \E e \in Deliveries, msg \in ProgressMsgs, ok \in StoreOutcomes : DupProgress(e, msg, ok)
    \/ \E e \in Deliveries : DupDownloaded(e)
    \/ \E e \in Deliveries, ok \in StoreOutcomes : DupWriteCompleted(e, ok)
    \/ \E e \in Deliveries, ok \in StoreOutcomes : DupAddToHistory(e, ok)
    \/ \E e \in Deliveries : DupReturn(e)

InitDupAll == InitDup /\ RunAtRest /\ ListAtRest /\ RetryAtRest /\ TwiceAtRest

SpecDup == InitDupAll /\ [][NextDup]_vars

(***************************************************************************)
(* C28: duplicate delivery is safe.  Once two executions of the same       *)
(* message have both returned 'completed', the record, if it has not       *)
(* expired, has status COMPLETED with the title, file_path and             *)
(* download_url of one of them, and the id is in the history index.  The   *)
(* code refutes it: an execution returns 'completed' also when Redis       *)
(* refused its COMPLETED write or its history insertion.                   *)
(***************************************************************************)
DuplicateIsSafe ==
    ((\A e \in Deliveries : dpc[e] = "succeeded") /\ Exists(store, DupTask))
    => /\ store[DupTask]["status"] = "COMPLETED"
       /\ \E e \in Deliveries :
             /\ store[DupTask]["title"] = dtitle[e]
             /\ store[DupTask]["file_path"] = ArgsCompleted(dtitle[e])["file_path"]
             /\ store[DupTask]["download_url"] = ArgsCompleted(dtitle[e])["download_url"]
       /\ DupTask \in DOMAIN history
       /\ ZCard(history) <= MAX_HISTORY_SIZE

(***************************************************************************)
(* C29: ties are broken by insertion order.  Among entries of equal score  *)
(* a listing returns the one inserted later first, and a trim evicts an    *)
(* entry only if every kept entry of the same score was inserted after it. *)
(* The code refutes it: Redis orders members of equal score by their       *)
(* bytes, and a task id says nothing about when it was inserted.           *)
(***************************************************************************)
TiesByInsertionOrder ==
    /\ [](HistIdle =>
            \A a \in DOMAIN history : \A b \in DOMAIN history :
                (history[a] = history[b] /\ hord[a] < hord[b])
                => ZRank(history, a) < ZRank(history, b))
    /\ [][\A a \in (DOMAIN history) \ (DOMAIN history') : \A b \in DOMAIN history' :
            (b \in DOMAIN history /\ history[a] = history[b]) => hord[a] < hord[b]]_vars

\* resolving id a raised TaskStorageError in the listing that lres describes:
\* its HGETALL failed, or its hash lacks a field a DownloadTask requires
ResolveRaised(r, st, a) == a \in r.faults \/ RetrieveRaises(st, a)

\* the ids of the listing that retrieve_task returned a DownloadTask for
ResolvedIds(r, st) ==
    SelectSeq(r.range, LAMBDA a : a \notin r.faults /\ Retrieved(st, a))

(***************************************************************************)
(* C30: in get_download_history_with_tasks, when resolving an id of the    *)
(* range raises TaskStorageError (a store fault or an unparsable record),  *)
(* the listing does not fail, the id is skipped and stays in the index,    *)
(* and the tasks returned are those of all the other ids that have a       *)
(* record, in the order of the range, which is from the highest score      *)
(* down.                                                                   *)
(***************************************************************************)
ListingSkipsUnresolvable ==
    [][(/\ lcalls' = lcalls + 1
        /\ lres'.op = "get_download_history_with_tasks"
        /\ \E a \in Members(lres'.range) : ResolveRaised(lres', store, a))
       => /\ ~lres'.raised
          /\ \A a \in Members(lres'.range) :
                ResolveRaised(lres', store, a) => a \in DOMAIN history'
          /\ \A i \in 1 .. Len(lres'.range) : \A j \in 1 .. Len(lres'.range) :
                i < j => ZRank(history, lres'.range[i]) > ZRank(history, lres'.range[j])
          /\ Len(lres'.tasks) = Len(ResolvedIds(lres', store))
          /\ \A i \in 1 .. Len(lres'.tasks) :
                lres'.tasks[i] = RetrieveTask(store, ResolvedIds(lres', store)[i])]_vars

\* a listing has met a store fault on one id and an unparsable record on
\* another, and has returned the task of an id that comes after both
ListingSkipsUnresolvableWitness ==
    /\ lres.op = "get_download_history_with_tasks"
    /\ ~lres.raised
    /\ \E i \in 1 .. Len(lres.range) : \E k \in 1 .. Len(lres.range) :
          \E j \in 1 .. Len(lres.range) :
            /\ i < j /\ k < j
            /\ lres.range[i] \in lres.faults
            /\ lres.range[k] \notin lres.faults /\ RetrieveRaises(store, lres.range[k])
            /\ lres.range[j] \notin lres.faults /\ Retrieved(store, lres.range[j])
            /\ {lres.range[i], lres.range[k]} \subseteq DOMAIN history
            /\ lres.tasks = <<RetrieveTask(store, lres.range[j])>>

(***************************************************************************)
(* C31: concurrent insertions never over-evict.  Once every one of the     *)
(* interleaved add_task_to_history calls has returned, the index holds     *)
(* min(MAX_HISTORY_SIZE, number of distinct ids inserted) entries and no   *)
(* id among the MAX_HISTORY_SIZE highest-scored of those inserted has been *)
(* evicted.  The code refutes it: two calls that both read zcard before    *)
(* either trims each remove the surplus of both.                           *)
(***************************************************************************)
NoOverEviction ==
    HistIdle =>
        /\ ZCard(history) = Min(MAX_HISTORY_SIZE, Cardinality(DOMAIN hAll))
        /\ \A b \in (DOMAIN hAll) \ (DOMAIN history) :
              Cardinality({a \in DOMAIN hAll : ZLess(hAll, b, a)}) >= MAX_HISTORY_SIZE

(***************************************************************************)
(* C32: update_task_status never creates a record.  In every state, also   *)
(* when a record expires between the existence check of an update and its  *)
(* write, every key task:{id} in the store holds a complete record (url,   *)
(* status, options, created_at, updated_at) that retrieve_task can parse.  *)
(* The code refutes it: the hset of an update whose key has expired since  *)
(* the check creates a hash holding the updated fields alone.              *)
(***************************************************************************)
EveryRecordComplete ==
    \A id \in StoreIds :
        Exists(store, id)
          => /\ {"url", "status", "options", "created_at", "updated_at"} \subseteq DOMAIN store[id]
             /\ Retrieved(store, id)

(***************************************************************************)
(* A store fault between the two commands of _store_operation and          *)
(* _update_operation: the hset has run, the expire raises ConnectionError  *)
(* and so does every later attempt of execute_with_retry, which raises it  *)
(* to store_task / update_task_status; they raise TaskStorageError.        *)
(***************************************************************************)
ExpireFails(c) ==
    /\ spc[c] \in {"store_expire", "upd_expire"}
    /\ Return(c, "TaskStorageError")
    /\ sarg' = [sarg EXCEPT ![c] = None]
    /\ UNCHANGED <<store, expires, now, nticks, scalls, lastTouch>>
    /\ UNCHANGED notStoreVars

NextStoreFault ==
    \/ NextStore
    \/ \E c \in StoreCallers : ExpireFails(c)

SpecStoreFault == InitStoreAll /\ [][NextStoreFault]_vars

(***************************************************************************)
(* C33: every task record in the store has a TTL, also after a store       *)
(* fault between the field write and the expire step of store_task or      *)
(* update_task_status: whenever no call is between its hset and its        *)
(* expire on a record, the key has an expiry and its TTL is positive, so   *)
(* that get_task_ttl returns a number.  The code refutes it: the hset of   *)
(* store_task creates the key without an expiry, and when the expire       *)
(* fails nothing sets one.                                                 *)
(***************************************************************************)
EveryRecordHasTtl ==
    \A id \in StoreIds :
        (Exists(store, id) /\ ~MidWrite(id))
          => /\ id \in DOMAIN expires
             /\ Ttl(store, expires, id, now) > 0

(***************************************************************************)
(* C34: when the record of a task does not exist while download_video_task *)
(* runs (it expired after the submission), the runner goes on all the      *)
(* same: its first write is followed by the call of the downloader, an     *)
(* execution that reaches its return ends succeeded, every step of the     *)
(* runner leaves the store and the expiries as they are, and no record of  *)
(* the id exists afterwards.                                               *)
(***************************************************************************)
RunsWithoutRecord ==
    [][\A t \in RunIds :
          (rq[t] = "running" /\ ~Exists(store, t))
            => /\ ~Exists(store', t)
               /\ rpc'[t] # rpc[t] => (store' = store /\ expires' = expires)
               /\ rpc[t] = "start" => rpc'[t] \in {"start", "download"}
               /\ (rpc[t] = "return" /\ rq'[t] # "running") => rq'[t] = "succeeded"
               /\ rq'[t] = "running" => rwrote'[t] = rwrote[t]]_vars

\* the only execution of a task has returned the downloader's result and
\* entered the id in the history; Redis answered its last write, which had
\* no effect, and there is no record
RunsWithoutRecordWitness ==
    \E t \in RunIds :
        /\ rq[t] = "succeeded" /\ rexecs[t] = 1
        /\ ~Exists(store, t)
        /\ ~rwrote[t] /\ ~rfault[t]
        /\ t \in DOMAIN history

(***************************************************************************)
(* submit_download step by step.  create_task runs store_task in a thread  *)
(* of its own and waits for it with thread.join(timeout=10); the thread is *)
(* a caller of the store, whose hset and expire are those of store_task.   *)
(* download_video_task.delay(...) comes after create_task has returned.    *)
(***************************************************************************)
\* the thread of create_task for task t has not finished
ThreadRunning(t) == \E c \in StoreCallers : spc[c] # "idle" /\ sarg[c].id = t

\* result[0]: True once the thread has finished and store_task returned True
ThreadResult(t) ==
    ~ThreadRunning(t) /\ \E c \in StoreCallers : spc[c] = "idle" /\ sres[c] = "True"

\* POST /downloads up to thread.start() in create_task
SubmitCall(t, url, c) ==
    /\ rq[t] = "none" /\ rresp[t] = None
    /\ ~Exists(store, t)
    /\ FreeCaller(c)
    /\ scalls < MaxStoreCalls
    /\ rreq' = [rreq EXCEPT ![t] = url]
    /\ IF ValidateUrl(url)
         THEN /\ rresp' = [rresp EXCEPT ![t] = "creating"]
              /\ scalls' = scalls + 1
              /\ spc' = [spc EXCEPT ![c] = "store_hset"]
              /\ sarg' = [sarg EXCEPT ![c] = [id |-> t, data |-> TaskData(NewTask(t, now))]]
              /\ sres' = [sres EXCEPT ![c] = None]
         ELSE /\ rresp' = [rresp EXCEPT ![t] = "rejected"]
              /\ UNCHANGED <<scalls, spc, sarg, sres>>
    /\ UNCHANGED <<store, expires, now, nticks, lastTouch>>
    /\ UNCHANGED <<rq, rretries, rpc, rexc, rtitle, rdelay, rwrote, rfault, rexecs, gres>>
    /\ UNCHANGED <<histVars, listVars, retryVars, twiceVars, dupVars>>

\* connect() or the hset of store_task fails on every attempt: nothing is
\* written and store_task_sync returns False
HSetFails(c) ==
    /\ spc[c] \in {"store_hset", "upd_hset"}
    /\ Return(c, "TaskStorageError")
    /\ sarg' = [sarg EXCEPT ![c] = None]
    /\ UNCHANGED <<store, expires, now, nticks, scalls, lastTouch>>
    /\ UNCHANGED notStoreVars

\* the mutation: create_task returns the task whatever the thread did
SubmitJoinAlways(t) ==
    /\ rresp[t] = "creating"
    /\ rresp' = [rresp EXCEPT ![t] = "enqueueing"]
    /\ UNCHANGED <<rq, rretries, rpc, rexc, rtitle, rdelay, rwrote, rfault, rexecs, gres, rreq>>
    /\ UNCHANGED <<histVars, storeVars, listVars, retryVars, twiceVars, dupVars>>

\* thread.join(timeout=10) returns, the thread finished or not;
\* if not result[0]: raise, which submit_download answers with 500
SubmitJoin(t) ==
    /\ rresp[t] = "creating"
    /\ rresp' = [rresp EXCEPT ![t] = IF ThreadResult(t) THEN "enqueueing" ELSE "failed"]
    /\ UNCHANGED <<rq, rretries, rpc, rexc, rtitle, rdelay, rwrote, rfault, rexecs, gres, rreq>>
    /\ UNCHANGED <<histVars, storeVars, listVars, retryVars, twiceVars, dupVars>>

\* download_video_task.delay(task_id, ...): the message is queued, or the
\* broker cannot be reached and delay raises, answered with 500
SubmitEnqueue(t, ok) ==
    /\ rresp[t] = "enqueueing"
    /\ rresp' = [rresp EXCEPT ![t] = IF ok THEN "accepted" ELSE "failed"]
    /\ rq' = [rq EXCEPT ![t] = IF ok THEN "queued" ELSE rq[t]]
    /\ UNCHANGED <<rretries, rpc, rexc, rtitle, rdelay, rwrote, rfault, rexecs, gres, rreq>>
    /\ UNCHANGED <<histVars, storeVars, listVars, retryVars, twiceVars, dupVars>>

\* the broker answers or not
BrokerOutcomes == {TRUE, FALSE}

NextSubmit ==
    \/ \E d \in TickSteps : Tick(d)
    \/ \E t \in RunIds, url \in Urls, c \in StoreCallers : SubmitCall(t, url, c)
    \/ \E c \in StoreCallers : StoreHSet(c)
    \/ \E c \in StoreCallers : StoreExpire(c)
    \/ \E c \in StoreCallers : HSetFails(c)
    \/ \E c \in StoreCallers : ExpireFails(c)
    \/ \E t \in RunIds : SubmitJoin(t)
    \/ \E t \in RunIds, ok \in BrokerOutcomes : SubmitEnqueue(t, ok)
    \/ \E t \in RunIds : Deliver(t)

SpecSubmit == InitRunAll /\ [][NextSubmit]_vars

(***************************************************************************)
(* C35: a message for a task id is queued only after store_task has        *)
(* returned True for its PENDING record, which is then in the store        *)
(* unless its retention window has passed; while create_task has not       *)
(* succeeded nothing is queued, so a worker never starts on an id whose    *)
(* record was never created.                                               *)
(***************************************************************************)
EnqueueAfterStore ==
    /\ [](\A t \in RunIds : rq[t] # "none" => ThreadResult(t))
    /\ [][\A t \in RunIds :
            (rq[t] = "none" /\ rq'[t] # "none")
              => /\ rq'[t] = "queued"
                 /\ ThreadResult(t)
                 /\ \/ now >= TASK_TTL_SECONDS
                    \/ /\ Retrieved(store, t)
                       /\ store[t]["status"] = "PENDING"
                       /\ t \in DOMAIN expires]_vars

\* a worker has taken the message of a submission whose record is stored
EnqueueAfterStoreWitness ==
    \E t \in RunIds :
        /\ rq[t] = "running" /\ rresp[t] = "accepted"
        /\ Retrieved(store, t) /\ store[t]["status"] = "PENDING"

(***************************************************************************)
(* C36: a submission that is answered as failed leaves nothing behind: no  *)
(* record of the generated id is in the store.  The code refutes it:       *)
(* nothing deletes the record when delay raises after create_task, when    *)
(* the expire of store_task fails after its hset, or when the thread of    *)
(* create_task writes after the join has timed out.                        *)
(***************************************************************************)
FailedSubmitLeavesNothing ==
    \A t \in RunIds : rresp[t] = "failed" => ~Exists(store, t)

(***************************************************************************)
(* C37: not-found is distinguishable from a store fault.                   *)
(* TaskStorage.get_task returns None, which GET status answers with 404,   *)
(* only when no record exists for the id.  The code refutes it: get_task   *)
(* returns None as well when Redis cannot be reached or the thread has     *)
(* not answered within its 5 seconds.                                      *)
(***************************************************************************)
NotFoundOnlyWhenAbsent ==
    [][\A t \in RunIds :
          (FirstGet(t) /\ gres'[t] = None) => ~Exists(store, t)]_vars

(***************************************************************************)
(* cleanup_old_tasks, the daily maintenance task.  It asks TaskStorage for *)
(* every task id, deletes the records created before the cutoff, and       *)
(* reports 'completed' unless an exception reaches its outer except.       *)
(***************************************************************************)
\* settings.file_retention_days
file_retention_days == 7

\* timedelta(days=settings.file_retention_days), in seconds
RetentionSeconds == file_retention_days * 24 * 60 * 60

\* cutoff_date = datetime.now() - timedelta(days=settings.file_retention_days)
CutoffDate(t) == t - RetentionSeconds

\* TaskStorage.get_all_task_ids: the module task_storage defines no
\* get_all_task_ids, the AttributeError is caught and [] is returned
GetAllTaskIds(st) == {}

\* if task and task.created_at < cutoff_date; get_task gives None for a record
\* it cannot parse
OldTasks(st, t) ==
    {id \in GetAllTaskIds(st) : Retrieved(st, id) /\ st[id]["created_at"] < CutoffDate(t)}

\* cleanup_old_tasks on a Redis that answers; TaskStorage.trim_history fails
\* like get_all_task_ids and is logged, the history is left as it is
CleanupOldTasks(c) ==
    /\ FreeCaller(c)
    /\ scalls < MaxStoreCalls
    /\ scalls' = scalls + 1
    /\ store' = [k \in (DOMAIN store) \ OldTasks(store, now) |-> store[k]]
    /\ expires' = [k \in (DOMAIN expires) \ OldTasks(store, now) |-> expires[k]]
    /\ sres' = [sres EXCEPT ![c] = "completed"]
    /\ UNCHANGED <<now, nticks, spc, sarg, lastTouch>>
    /\ UNCHANGED notStoreVars

NextCleanup ==
    \/ NextStore
    \/ \E c \in StoreCallers : CleanupOldTasks(c)

SpecCleanup == InitStoreAll /\ [][NextCleanup]_vars

\* the step is a run of cleanup_old_tasks
CleanupStep == scalls' = scalls + 1 /\ spc' = spc

(***************************************************************************)
(* C38: when cleanup_old_tasks has finished with status 'completed', no    *)
(* record created before the cutoff (now minus file_retention_days) is     *)
(* left in the store, and no record created at or after the cutoff has     *)
(* been deleted.  The code refutes it: the id list cleanup works on is     *)
(* always empty, so the old records stay.                                  *)
(***************************************************************************)
CleanupRemovesOld ==
    [][CleanupStep =>
        /\ \A id \in DOMAIN store' :
              "created_at" \in DOMAIN store'[id]
                => store'[id]["created_at"] >= CutoffDate(now)
        /\ \A id \in DOMAIN store :
              ("created_at" \in DOMAIN store[id] /\ store[id]["created_at"] >= CutoffDate(now))
                => id \in DOMAIN store']_vars

\* the outcome of the pass of the loop that ran last
LastTried(seq) == seq[Len(seq)]

\* the step is a pass of the loop of execute_with_retry
PassStep == epc = "try" /\ Len(tried') = Len(tried) + 1

\* the number of passes in which the operation was called
Invoked(seq) == Cardinality({i \in 1 .. Len(seq) : seq[i] # "NotConnected"})

\* a RedisError that is neither a ConnectionError nor a TimeoutError ends
\* the call in the pass where it occurs: no sleep, no reconnect, no new pass
RedisErrorRaisedAtOnce ==
    /\ [][(PassStep /\ LastTried(tried') = "RedisError")
            => /\ epc' = "idle" /\ eres' = "RedisError"
               /\ slept' = slept /\ retry_delay' = retry_delay
               /\ is_connected' = is_connected /\ attempt' = attempt]_vars
    /\ [](\A i \in 1 .. Len(tried) :
            tried[i] = "RedisError" => (i = Len(tried) /\ epc = "idle"))

(***************************************************************************)
(* C39 as stated: a RedisError that is not a connection or timeout error   *)
(* is raised at once; and once a reconnect has failed, every remaining     *)
(* attempt of the call fails with 'not connected' without invoking the     *)
(* operation.  The code refutes the second half: connect() is called       *)
(* again before every further attempt, and an attempt that follows a       *)
(* reconnect that succeeded invokes the operation.                         *)
(***************************************************************************)
RemainingAttemptsNotConnected ==
    /\ RedisErrorRaisedAtOnce
    /\ [](\A i \in 2 .. Len(tried) : \A j \in 2 .. Len(tried) :
            (i < j /\ tried[i] = "NotConnected") => tried[j] = "NotConnected")

(***************************************************************************)
(* C39, amended: a RedisError that is not a connection or timeout error    *)
(* is raised on the attempt where it occurs, with no sleep, no reconnect   *)
(* and no further attempt; an attempt that starts with the client not      *)
(* connected, as after a reconnect that failed, fails with 'not connected' *)
(* without invoking the operation, and an attempt that starts connected    *)
(* invokes it; so the operation is invoked 3 times only if every           *)
(* reconnect of the call has succeeded.                                    *)
(***************************************************************************)
NotConnectedSkipsOperation ==
    /\ RedisErrorRaisedAtOnce
    /\ [][PassStep => (LastTried(tried') = "NotConnected" <=> ~is_connected)]_vars
    /\ [][(epc = "connect" /\ epc' = "try") => attempt' = attempt + 1]_vars
    /\ [](Invoked(tried) <= Len(tried) /\ Len(tried) <= execute_max_retries)
    /\ [](Invoked(tried) = execute_max_retries
            => \A i \in 1 .. Len(tried) : tried[i] # "NotConnected")

\* the first reconnect failed, the second succeeded, and the third attempt
\* invoked the operation, which returned
NotConnectedSkipsOperationWitness ==
    /\ epc = "idle" /\ eres = "returned"
    /\ Len(tried) = 3
    /\ tried[1] \in {"ConnectionError", "TimeoutError"}
    /\ tried[2] = "NotConnected"
    /\ tried[3] = "ok"
    /\ slept = <<1, 2>>

====
